---- MODULE Spec2Model ----
(***************************************************************************)
(* Resource / approval workflow of the formula API.                        *)
(*                                                                         *)
(* The database is the only shared state: the resources table and the      *)
(* approvals table, each with its AUTO_INCREMENT counter.  Every HTTP      *)
(* handler is one action (Spec).  approveResource and rejectResource issue *)
(* two independent UPDATE statements; SpecRace runs them as two steps of   *)
(* concurrently executing requests.                                        *)
(*                                                                         *)
(* Columns that no modelled decision reads (file_name, file_type,          *)
(* file_size, file_url, description, comments, decision_date, uploaded_on) *)
(* are left out of the rows.  NOW() is the abstract value "NOW".           *)
(* roleGiven is a history variable: for each resource row, the userRole    *)
(* argument of the createResource call that inserted it.  statusAsked is   *)
(* a history variable too: for each resource row, whether an               *)
(* updateResource request carrying approval_status = Pending reached it    *)
(* while it was Approved or Rejected.                                      *)
(*                                                                         *)
(* Spec, SpecService and SpecRace follow the approval workflow and leave   *)
(* the file store out (file_url is not read there).  SpecFiles follows the *)
(* file operations: the upload route with its multer middleware, the       *)
(* download and static routes, deleteResource statement by statement and   *)
(* the fix-urls utility, over the uploads directory (disk) and the         *)
(* file_url column (fileUrl, a [bucket, name] pair per resources row).     *)
(* SpecFormulas follows FormulaService.createFormula, deleteFormula and    *)
(* addFormulaComponent and UserService.deleteUser statement by statement,  *)
(* over the users, formulas, formula_components and quotes tables.         *)
(***************************************************************************)
EXTENDS Integers, FiniteSets, Sequences, TLC

VARIABLES resources, nextResourceId, approvals, nextApprovalId, calls, roleGiven,
          statusAsked, disk, fileUrl, nextFileName, deletes, reply,
          users, formulas, components, quotes, nextFormulaId, nextComponentId,
          creates, removes, userDeletes, listing, request, chat, interactions

vars == <<resources, nextResourceId, approvals, nextApprovalId, calls, roleGiven,
          statusAsked, disk, fileUrl, nextFileName, deletes, reply,
          users, formulas, components, quotes, nextFormulaId, nextComponentId,
          creates, removes, userDeletes, listing, request, chat, interactions>>

db == <<resources, nextResourceId, approvals, nextApprovalId>>

\* The file store: the uploads directory, the file_url column of resources,
\* the file names multer has handed out, the deleteResource requests in
\* flight and the last answer of a file operation.
fileVars == <<disk, fileUrl, nextFileName, deletes, reply>>

\* The formula store: the users, formulas, formula_components and quotes
\* tables, the AUTO_INCREMENT counters of formulas and formula_components,
\* and the createFormula, deleteFormula and deleteUser calls in flight.
formulaVars == <<users, formulas, components, quotes, nextFormulaId,
                 nextComponentId, creates, removes, userDeletes>>

\* The streamChatMessage request in progress and the chat_interactions table.
chatVars == <<chat, interactions>>

\* The last answer of a paginated listing, the request the resource router
\* handled last, and the chat.
otherVars == <<listing, request, chatVars>>

\* What the approval workflow leaves alone.
beyondWorkflow == <<fileVars, formulaVars, otherVars>>

\* What the file operations leave alone, the workflow apart.
beyondFiles == <<formulaVars, otherVars>>

\* What the formula and user services leave alone.
beyondFormulas == <<db, calls, roleGiven, statusAsked, fileVars, otherVars>>

----------------------------------------------------------------------------
(* Bounds *)

MaxResources == 1

MaxApprovals == 2

MaxUser == 2

MaxClients == 2

----------------------------------------------------------------------------
(* Domains *)

NULL == 0

Users == 1..MaxUser

Clients == 1..MaxClients

Categories == {"formulas", "quotes", "knowledge", "other"}

ApprovalStatuses == {"Approved", "Pending", "Rejected"}

EntityTypes == {"Formula", "Quote", "Resource"}

Decisions == {"Pending", "Approved", "Rejected", "Returned"}

RoleNames == {"capacity_admin", "nsight_admin", "user"}

Undefined == "undefined"

\* approver_id values a request body can carry: absent (NULL), an existing
\* user, or an id that is in no users row.
ApproverInputs == 0..(MaxUser + 1)

ResourceIdInputs == 1..MaxResources

ApprovalIdInputs == 1..MaxApprovals

----------------------------------------------------------------------------
(* resourceService.ts *)

\* Mutation: only the first admin role name is recognised.
AdminRolesOnlyCapacity == {"capacity_admin"}

AdminRoles == {"capacity_admin", "nsight_admin"}

\* Mutation: the knowledge branch is lost, every non-admin upload is Pending.
ApprovalPolicyNoKnowledge(userRole, category) ==
  IF userRole \in AdminRoles THEN "Approved" ELSE "Pending"

\* createResource, the if / else-if / else that picks approvalStatus.
ApprovalPolicy(userRole, category) ==
  IF userRole \in AdminRoles THEN "Approved"
  ELSE IF category = "knowledge" THEN "Approved"
  ELSE "Pending"

\* The row handed to INSERT INTO resources.
NewResourceRow(data, userRole) ==
  LET approvalStatus == ApprovalPolicy(userRole, data.category)
  IN  [category        |-> data.category,
       uploaded_by     |-> data.uploaded_by,
       approval_status |-> approvalStatus,
       approved_by     |-> IF approvalStatus = "Approved" THEN data.uploaded_by ELSE NULL,
       approved_on     |-> IF approvalStatus = "Approved" THEN "NOW" ELSE "NULL"]

\* TRIGGER before_resource_insert.
before_resource_insert(row) ==
  IF row.category = "knowledge"
  THEN [row EXCEPT !.approval_status = "Approved",
                   !.approved_by = row.uploaded_by,
                   !.approved_on = "NOW"]
  ELSE row

\* The row of INSERT INTO approvals in createResource.
PendingApprovalRow(resourceId, data) ==
  [entity_type |-> "Resource", entity_id |-> resourceId,
   approver_id |-> data.uploaded_by, decision |-> "Pending"]

InsertRow(table, id, row) ==
  [k \in DOMAIN table \cup {id} |-> IF k = id THEN row ELSE table[k]]

DeleteRow(table, id) ==
  [k \in DOMAIN table \ {id} |-> table[k]]

\* The approvals rows of one entity, optionally of one decision.
ApprovalsOf(appr, entityType, entityId) ==
  {a \in DOMAIN appr : appr[a].entity_type = entityType /\ appr[a].entity_id = entityId}

PendingApprovalsOf(appr, entityType, entityId) ==
  {a \in ApprovalsOf(appr, entityType, entityId) : appr[a].decision = "Pending"}

\* A foreign key on users(user_id) rejects an id that is in no users row.
ForeignKeyFails(userId) == userId \notin Users

\* ResourceService.createResource(data, userRole): the state change.
\* The approvals row is inserted only when the status computed by the code
\* (not the one the trigger stored) is Pending.
ServiceCreateResourceUpTo(limit, data, userRole) ==
  LET resourceId == nextResourceId
      computed   == NewResourceRow(data, userRole)
      stored     == before_resource_insert(computed)
  IN  /\ nextResourceId <= limit
      /\ ~ForeignKeyFails(data.uploaded_by)
      /\ resources' = InsertRow(resources, resourceId, stored)
      /\ roleGiven' = InsertRow(roleGiven, resourceId, userRole)
      /\ statusAsked' = InsertRow(statusAsked, resourceId, FALSE)
      /\ nextResourceId' = nextResourceId + 1
      /\ IF computed.approval_status = "Pending"
         THEN /\ nextApprovalId <= MaxApprovals
              /\ approvals' = InsertRow(approvals, nextApprovalId,
                                        PendingApprovalRow(resourceId, data))
              /\ nextApprovalId' = nextApprovalId + 1
         ELSE UNCHANGED <<approvals, nextApprovalId>>

\* ResourceService.createResource while the table holds at most MaxResources
\* rows.
ServiceCreateResource(data, userRole) ==
  ServiceCreateResourceUpTo(MaxResources, data, userRole)

CreateInputs == [category : Categories, uploaded_by : Users]

\* The service method called directly with an actor role.
createResource(data, userRole) ==
  /\ ServiceCreateResource(data, userRole)
  /\ UNCHANGED <<calls, beyondWorkflow>>

----------------------------------------------------------------------------
(* Resource handlers (controllers) *)

HandlerCreateInputs == [category : Categories \cup {Undefined}, uploaded_by : ApproverInputs]

\* POST /api/resources: validation, then the service without an actor role.
createResourceHandler(data) ==
  /\ data.category # Undefined /\ data.uploaded_by # NULL
  /\ ServiceCreateResource(data, Undefined)
  /\ UNCHANGED <<calls, beyondWorkflow>>

\* POST /api/resources/upload, after the file was stored: req.user.role is the
\* authenticated actor's role; the handler never reads it.
uploadResource(actorRole, hasFile, data) ==
  /\ hasFile /\ data.category # Undefined /\ data.uploaded_by # NULL
  /\ ServiceCreateResource(data, Undefined)
  /\ UNCHANGED <<calls, beyondWorkflow>>

UpdateInputs == [category : Categories \cup {Undefined},
                 approval_status : ApprovalStatuses \cup {Undefined}]

\* Mutation: the update also writes the approval_status field of the request.
ServiceUpdateResourceWritesStatus(res, resourceId, data) ==
  [r \in DOMAIN res |->
     IF r = resourceId
     THEN [res[r] EXCEPT
             !.category = IF data.category # Undefined THEN data.category ELSE @,
             !.approval_status = IF data.approval_status # Undefined
                                 THEN data.approval_status ELSE @]
     ELSE res[r]]

\* ResourceService.updateResource: only file_name, category and description
\* are written; approval_status and approved_by of the request are not read.
ServiceUpdateResource(res, resourceId, data) ==
  [r \in DOMAIN res |->
     IF r = resourceId /\ data.category # Undefined
     THEN [res[r] EXCEPT !.category = data.category]
     ELSE res[r]]

\* PUT /api/resources/:id
updateResource(resourceId, data) ==
  /\ resources' = ServiceUpdateResource(resources, resourceId, data)
  /\ statusAsked' = [r \in DOMAIN statusAsked |->
                       IF /\ r = resourceId
                          /\ data.approval_status = "Pending"
                          /\ resources[r].approval_status \in {"Approved", "Rejected"}
                       THEN TRUE ELSE statusAsked[r]]
  /\ UNCHANGED <<nextResourceId, approvals, nextApprovalId, calls, roleGiven, beyondWorkflow>>

\* DELETE /api/resources/:id (the row; no statement touches approvals).
deleteResource(resourceId) ==
  /\ resources' = DeleteRow(resources, resourceId)
  /\ roleGiven' = DeleteRow(roleGiven, resourceId)
  /\ statusAsked' = DeleteRow(statusAsked, resourceId)
  /\ UNCHANGED <<nextResourceId, approvals, nextApprovalId, calls, beyondWorkflow>>

----------------------------------------------------------------------------
(* approveResource / rejectResource: two UPDATE statements *)

\* Mutation: the statement only touches a row that is still Pending.
UpdateResourceStatusOnlyPending(res, resourceId, approverId, status) ==
  IF resourceId \notin DOMAIN res \/ res[resourceId].approval_status # "Pending"
  THEN [ok |-> TRUE, rows |-> res, affected |-> 0]
  ELSE IF ForeignKeyFails(approverId)
  THEN [ok |-> FALSE, rows |-> res, affected |-> 0]
  ELSE [ok |-> TRUE,
        rows |-> [res EXCEPT ![resourceId].approval_status = status,
                             ![resourceId].approved_by = approverId,
                             ![resourceId].approved_on = "NOW"],
        affected |-> 1]

\* UPDATE resources SET approval_status = ?, approved_by = ?, approved_on = NOW()
\* WHERE resource_id = ?
UpdateResourceStatus(res, resourceId, approverId, status) ==
  IF resourceId \notin DOMAIN res
  THEN [ok |-> TRUE, rows |-> res, affected |-> 0]
  ELSE IF ForeignKeyFails(approverId)
  THEN [ok |-> FALSE, rows |-> res, affected |-> 0]
  ELSE [ok |-> TRUE,
        rows |-> [res EXCEPT ![resourceId].approval_status = status,
                             ![resourceId].approved_by = approverId,
                             ![resourceId].approved_on = "NOW"],
        affected |-> 1]

\* Mutation: the WHERE clause lost "AND decision = 'Pending'".
UpdateApprovalDecisionAnyDecision(appr, resourceId, approverId, decision) ==
  LET matching == ApprovalsOf(appr, "Resource", resourceId)
  IN  IF matching = {}
      THEN [ok |-> TRUE, rows |-> appr, affected |-> 0]
      ELSE IF ForeignKeyFails(approverId)
      THEN [ok |-> FALSE, rows |-> appr, affected |-> 0]
      ELSE [ok |-> TRUE,
            rows |-> [a \in DOMAIN appr |->
                        IF a \in matching
                        THEN [appr[a] EXCEPT !.decision = decision,
                                             !.approver_id = approverId]
                        ELSE appr[a]],
            affected |-> Cardinality(matching)]

\* Mutation: the statement sets the decision but not approver_id.
UpdateApprovalDecisionKeepApprover(appr, resourceId, approverId, decision) ==
  LET matching == PendingApprovalsOf(appr, "Resource", resourceId)
  IN  IF matching = {}
      THEN [ok |-> TRUE, rows |-> appr, affected |-> 0]
      ELSE IF ForeignKeyFails(approverId)
      THEN [ok |-> FALSE, rows |-> appr, affected |-> 0]
      ELSE [ok |-> TRUE,
            rows |-> [a \in DOMAIN appr |->
                        IF a \in matching
                        THEN [appr[a] EXCEPT !.decision = decision]
                        ELSE appr[a]],
            affected |-> Cardinality(matching)]

\* UPDATE approvals SET decision = ?, approver_id = ?, decision_date = NOW()
\* WHERE entity_type = 'Resource' AND entity_id = ? AND decision = 'Pending'
UpdateApprovalDecision(appr, resourceId, approverId, decision) ==
  LET matching == PendingApprovalsOf(appr, "Resource", resourceId)
  IN  IF matching = {}
      THEN [ok |-> TRUE, rows |-> appr, affected |-> 0]
      ELSE IF ForeignKeyFails(approverId)
      THEN [ok |-> FALSE, rows |-> appr, affected |-> 0]
      ELSE [ok |-> TRUE,
            rows |-> [a \in DOMAIN appr |->
                        IF a \in matching
                        THEN [appr[a] EXCEPT !.decision = decision,
                                             !.approver_id = approverId]
                        ELSE appr[a]],
            affected |-> Cardinality(matching)]

\* ResourceService.approveResource / rejectResource run without interruption:
\* first UPDATE, second UPDATE, getResourceById (404 when it finds no row).  A
\* statement that fails throws before it changes a row.
DecisionService(status, resourceId, approverId) ==
  LET first  == UpdateResourceStatus(resources, resourceId, approverId, status)
      second == UpdateApprovalDecision(approvals, resourceId, approverId, status)
  IN  /\ first.ok /\ second.ok
      /\ resources' = first.rows
      /\ approvals' = second.rows
      /\ UNCHANGED <<nextResourceId, nextApprovalId, calls, roleGiven, statusAsked, beyondWorkflow>>

\* The handler: validation (400 when approver_id is missing), then the service.
DecisionHandler(status, resourceId, approverId) ==
  /\ approverId # NULL
  /\ DecisionService(status, resourceId, approverId)

\* approver_id values of a JSON body that are not numbers: the string "abc"
\* and the boolean true (written "true").
NonNumericApprovers == {"abc", "true"}

\* if (!approver_id): both values are truthy.
Truthy(value) == value \in {"abc", "true"}

\* The values the validation answers with 400.
AnswersBadRequest(value) == ~Truthy(value)

\* What the INT UNSIGNED column receives from pool.query: the boolean is
\* escaped as the literal true, which is 1; a string that is no number is
\* refused in strict mode and is 0 otherwise, an id of no user either way.
SqlInteger(value) == IF value = "true" THEN 1 ELSE NULL

\* The handlers given a truthy approver_id that is not a number.
DecisionHandlerNonNumeric(status, resourceId, value) ==
  /\ ~AnswersBadRequest(value)
  /\ DecisionService(status, resourceId, SqlInteger(value))

approveResourceNonNumeric(resourceId, value) ==
  DecisionHandlerNonNumeric("Approved", resourceId, value)

rejectResourceNonNumeric(resourceId, value) ==
  DecisionHandlerNonNumeric("Rejected", resourceId, value)

approveResource(resourceId, approverId) ==
  DecisionHandler("Approved", resourceId, approverId)

rejectResource(resourceId, approverId) ==
  DecisionHandler("Rejected", resourceId, approverId)

----------------------------------------------------------------------------
(* Approval handlers *)

ApprovalCreateInputs == [entity_type : EntityTypes,
                         entity_id   : 0..MaxResources,
                         approver_id : ApproverInputs,
                         decision    : Decisions \cup {Undefined}]

\* Mutation: a missing decision defaults to Returned.
DefaultDecisionReturned(decision) ==
  IF decision = Undefined THEN "Returned" ELSE decision

\* data.decision || 'Pending'
DefaultDecision(decision) ==
  IF decision = Undefined THEN "Pending" ELSE decision

\* POST /api/approvals: 400 when a required field is missing; otherwise the
\* row is inserted as given, decision defaulting to Pending.  entity_id has no
\* foreign key.
createApproval(data) ==
  /\ data.entity_id # NULL /\ data.approver_id # NULL
  /\ ~ForeignKeyFails(data.approver_id)
  /\ nextApprovalId <= MaxApprovals
  /\ approvals' = InsertRow(approvals, nextApprovalId,
       [entity_type |-> data.entity_type,
        entity_id   |-> data.entity_id,
        approver_id |-> data.approver_id,
        decision    |-> DefaultDecision(data.decision)])
  /\ nextApprovalId' = nextApprovalId + 1
  /\ UNCHANGED <<resources, nextResourceId, calls, roleGiven, statusAsked, beyondWorkflow>>

\* PUT /api/approvals/:id: 400 when decision is missing; otherwise
\* UPDATE approvals SET decision = ?, comments = ? WHERE approval_id = ?
updateApproval(approvalId, decision) ==
  /\ decision # Undefined
  /\ approvals' = [a \in DOMAIN approvals |->
                     IF a = approvalId
                     THEN [approvals[a] EXCEPT !.decision = decision]
                     ELSE approvals[a]]
  /\ UNCHANGED <<resources, nextResourceId, nextApprovalId, calls, roleGiven, statusAsked, beyondWorkflow>>

\* DELETE /api/approvals/:id
deleteApproval(approvalId) ==
  /\ approvals' = DeleteRow(approvals, approvalId)
  /\ UNCHANGED <<resources, nextResourceId, nextApprovalId, calls, roleGiven, statusAsked, beyondWorkflow>>

----------------------------------------------------------------------------
(* approveResource / rejectResource as concurrent requests.  Every await on  *)
(* pool.query is a point where another request can run.  calls[c] is the     *)
(* request client c has in flight: the decision it writes, its arguments,    *)
(* the statement it runs next, the rows its approvals UPDATE affected and    *)
(* the HTTP status it answered.  before and pendingBefore are history        *)
(* fields, read by no action: the approval_status of the resource and the    *)
(* number of its Pending approvals rows when the request arrived.            *)

Idle == [decision |-> "none", id |-> 0, approver |-> 0, pc |-> "idle",
         before |-> "none", pendingBefore |-> 0, affected |-> 0, status |-> 0]

\* The request arrives; a missing approver_id is answered 400 at once.
DecisionBegin(c, decision, resourceId, approverId) ==
  /\ calls[c].pc \in {"idle", "done"}
  /\ calls' = [calls EXCEPT ![c] =
       IF approverId = NULL
       THEN [decision |-> decision, id |-> resourceId, approver |-> approverId,
             pc |-> "done", before |-> "none", pendingBefore |-> 0,
             affected |-> 0, status |-> 400]
       ELSE [decision |-> decision, id |-> resourceId, approver |-> approverId,
             pc |-> "resources",
             before |-> IF resourceId \in DOMAIN resources
                        THEN resources[resourceId].approval_status ELSE "none",
             pendingBefore |->
               Cardinality(PendingApprovalsOf(approvals, "Resource", resourceId)),
             affected |-> 0, status |-> 0]]
  /\ UNCHANGED <<db, roleGiven, statusAsked, beyondWorkflow>>

approveResourceBegin(c, resourceId, approverId) ==
  DecisionBegin(c, "Approved", resourceId, approverId)

rejectResourceBegin(c, resourceId, approverId) ==
  DecisionBegin(c, "Rejected", resourceId, approverId)

\* First statement: UPDATE resources.  A failure is answered 500.
DecisionUpdateResource(c) ==
  LET call  == calls[c]
      first == UpdateResourceStatus(resources, call.id, call.approver, call.decision)
  IN  /\ call.pc = "resources"
      /\ resources' = first.rows
      /\ calls' = [calls EXCEPT ![c].pc = IF first.ok THEN "approvals" ELSE "done",
                                ![c].status = IF first.ok THEN 0 ELSE 500]
      /\ UNCHANGED <<nextResourceId, approvals, nextApprovalId, roleGiven, statusAsked, beyondWorkflow>>

\* Second statement: UPDATE approvals, then getResourceById and the answer.
DecisionUpdateApprovals(c) ==
  LET call   == calls[c]
      second == UpdateApprovalDecision(approvals, call.id, call.approver, call.decision)
  IN  /\ call.pc = "approvals"
      /\ approvals' = second.rows
      /\ calls' = [calls EXCEPT ![c].pc = "done",
                                ![c].affected = second.affected,
                                ![c].status = IF ~second.ok THEN 500
                                              ELSE IF call.id \in DOMAIN resources
                                              THEN 200 ELSE 404]
      /\ UNCHANGED <<resources, nextResourceId, nextApprovalId, roleGiven, statusAsked, beyondWorkflow>>

\* Mutation: the catch block puts the resources row back as the call found
\* it.
AfterFailureRestores(res, call) ==
  IF call.id \in DOMAIN res /\ call.before # "none"
  THEN [res EXCEPT ![call.id].approval_status = call.before]
  ELSE res

\* The resources table after a failure of the second statement: the catch
\* block of the handler logs and answers, no statement undoes the first
\* UPDATE.
AfterFailure(res, call) == res

\* The second pool.query throws (connection lost, lock wait timeout) before
\* it changes a row: the service rethrows and the handler answers 500.
DecisionUpdateApprovalsFails(c) ==
  LET call == calls[c]
  IN  /\ call.pc = "approvals"
      /\ resources' = AfterFailure(resources, call)
      /\ calls' = [calls EXCEPT ![c].pc = "done", ![c].status = 500]
      /\ UNCHANGED <<nextResourceId, approvals, nextApprovalId, roleGiven, statusAsked, beyondWorkflow>>

----------------------------------------------------------------------------
(* The file store: config/upload.ts, the upload, download and delete        *)
(* handlers, the /uploads fallback route and the fix-urls utility.          *)

MaxFiles == 2

FileNames == 1..MaxFiles

\* The search order of the fallback route and of fix-urls.
BucketOrder == <<"formulas", "quotes", "knowledge", "other">>

\* MIME types of an uploaded part: one of the allow-list, one outside it.
MimeTypes == {"application/pdf", "application/zip"}

\* Mutation: the filter lets every type through.
fileFilterAcceptsAll(mimetype) == TRUE

\* fileFilter: allowedTypes.includes(file.mimetype)
fileFilter(mimetype) ==
  mimetype \in {"application/pdf",
                "application/vnd.ms-excel",
                "application/vnd.openxmlformats-officedocument.spreadsheetml.sheet",
                "application/msword",
                "application/vnd.openxmlformats-officedocument.wordprocessingml.document",
                "text/plain", "text/csv", "image/jpeg", "image/png", "image/gif"}

\* storage.destination: categoriesPath[req.body.category || 'other'], the
\* other bucket when the key is unknown.
destination(category) ==
  IF category \in Categories THEN category ELSE "other"

\* What the ENUM column keeps of a value outside its list when the server is
\* not in strict mode.
EmptyEnum == ""

NoReply == [op |-> "none", outcome |-> "none", status |-> 0, mime |-> "none",
            fixed |-> 0]

Answer(op, outcome, status) ==
  [op |-> op, outcome |-> outcome, status |-> status, mime |-> "none", fixed |-> 0]

\* The answer to an upload, with the MIME type of the file part it carried.
UploadAnswer(file, outcome, status) ==
  [Answer("upload", outcome, status) EXCEPT !.mime = file]

\* Body fields of an upload: category may be absent or outside the list.
UploadInputs == [category : Categories \cup {Undefined, "zip"},
                 uploaded_by : {NULL, 1, MaxUser + 1}]

\* The INSERT of a category outside the ENUM list: refused when the server is
\* in strict SQL mode, stored as the empty string otherwise.
SqlModes == {"strict", "lenient"}

\* POST /api/resources/upload: upload.single('file') and then uploadResource.
\* file is the MIME type of the file part (Undefined: no file part);
\* categoryFirst tells whether the category field precedes the file part, the
\* only case in which storage.destination sees it.  An error of the filter
\* goes to the Express error handler and the handler does not run.
postUploadUpTo(limit, file, categoryFirst, data) ==
  IF file # Undefined /\ ~fileFilter(file)
  THEN /\ reply' = UploadAnswer(file, "filtered", 500)
       /\ UNCHANGED <<db, calls, roleGiven, statusAsked, disk, fileUrl,
                      nextFileName, deletes, beyondFiles>>
  ELSE LET stored   == file # Undefined
           filename == nextFileName
           dest     == destination(IF categoryFirst THEN data.category ELSE Undefined)
           invalid  == data.category = Undefined \/ data.uploaded_by = NULL
           row      == [category    |-> IF data.category \in Categories
                                        THEN data.category ELSE EmptyEnum,
                        uploaded_by |-> data.uploaded_by]
       IN  /\ stored => nextFileName <= MaxFiles
           /\ disk' = IF stored
                      THEN disk \cup {[bucket |-> dest, name |-> filename]}
                      ELSE disk
           /\ nextFileName' = IF stored THEN nextFileName + 1 ELSE nextFileName
           /\ UNCHANGED <<calls, deletes, beyondFiles>>
           /\ IF ~stored \/ invalid
              THEN /\ reply' = UploadAnswer(file, "refused", 400)
                   /\ UNCHANGED <<db, roleGiven, statusAsked, fileUrl>>
              ELSE \E mode \in IF data.category \in Categories
                                THEN {"strict"} ELSE SqlModes :
                     IF \/ ForeignKeyFails(data.uploaded_by)
                        \/ data.category \notin Categories /\ mode = "strict"
                     THEN /\ reply' = UploadAnswer(file, "failed", 500)
                          /\ UNCHANGED <<db, roleGiven, statusAsked, fileUrl>>
                     ELSE /\ ServiceCreateResourceUpTo(limit, row, Undefined)
                          /\ fileUrl' = InsertRow(fileUrl, nextResourceId,
                                          [bucket |-> data.category, name |-> filename])
                          /\ reply' = UploadAnswer(file, "created", 201)

postUpload(file, categoryFirst, data) ==
  postUploadUpTo(MaxResources, file, categoryFirst, data)

\* POST /api/resources with a file_url of the client's choice.
createResourceWithUrlUpTo(limit, data, url) ==
  /\ data.category # Undefined /\ data.uploaded_by # NULL
  /\ ServiceCreateResourceUpTo(limit, data, Undefined)
  /\ fileUrl' = InsertRow(fileUrl, nextResourceId, url)
  /\ reply' = Answer("create", "created", 201)
  /\ UNCHANGED <<calls, disk, nextFileName, deletes, beyondFiles>>

createResourceWithUrl(data, url) ==
  createResourceWithUrlUpTo(MaxResources, data, url)

\* The first bucket of the search order that holds the file, "none" if no
\* bucket does.
RECURSIVE FirstBucketFrom(_, _, _)
FirstBucketFrom(i, files, name) ==
  IF i > Len(BucketOrder) THEN "none"
  ELSE IF [bucket |-> BucketOrder[i], name |-> name] \in files THEN BucketOrder[i]
  ELSE FirstBucketFrom(i + 1, files, name)

FirstBucket(files, name) == FirstBucketFrom(1, files, name)

\* What a file request is answered: the status and, when a file is sent, the
\* bucket it is read from.
FileAnswer(outcome, status, bucket) ==
  [outcome |-> outcome, status |-> status, bucket |-> bucket]

\* GET /api/resources/:id/download, the answer: only the recorded path is
\* looked at.
downloadResource(resourceId) ==
  IF resourceId \notin DOMAIN resources
  THEN FileAnswer("noresource", 404, "none")
  ELSE IF fileUrl[resourceId] \notin disk
  THEN FileAnswer("nofile", 404, "none")
  ELSE FileAnswer("served", 200, fileUrl[resourceId].bucket)

\* GET /uploads/:category/:filename, the answer: express.static, then the
\* fallback route, whose redirect is served by express.static.
getUpload(category, filename) ==
  IF [bucket |-> category, name |-> filename] \in disk
  THEN FileAnswer("served", 200, category)
  ELSE IF FirstBucket(disk, filename) # "none"
  THEN FileAnswer("redirected", 200, FirstBucket(disk, filename))
  ELSE FileAnswer("nofile", 404, "none")

\* Mutation: the corrected URL keeps the category segment it had.
CorrectUrlBucketKeepsStated(actualCategory, category) == category

\* correctUrl = .../uploads/${actualCategory}/${filename}
CorrectUrlBucket(actualCategory, category) == actualCategory

\* fix-urls, the rows it rewrites: those whose file is not at the recorded
\* path and sits in a bucket other than the recorded one.
NeedsFix(files, urls, r) ==
  /\ urls[r] \notin files
  /\ FirstBucket(files, urls[r].name) \notin {"none", urls[r].bucket}

FixedRows(files, urls) == {r \in DOMAIN urls : NeedsFix(files, urls, r)}

FixedUrls(files, urls) ==
  [r \in DOMAIN urls |->
     IF NeedsFix(files, urls, r)
     THEN [bucket |-> CorrectUrlBucket(FirstBucket(files, urls[r].name), urls[r].bucket),
           name   |-> urls[r].name]
     ELSE urls[r]]

FixedCategories(files, urls, res) ==
  [r \in DOMAIN res |->
     IF r \in DOMAIN urls /\ NeedsFix(files, urls, r)
     THEN [res[r] EXCEPT !.category = FirstBucket(files, urls[r].name)]
     ELSE res[r]]

\* POST /api/uploads/fix-urls
fixUrls ==
  /\ fileUrl' = FixedUrls(disk, fileUrl)
  /\ resources' = FixedCategories(disk, fileUrl, resources)
  /\ reply' = [Answer("fix-urls", "done", 200) EXCEPT
                 !.fixed = Cardinality(FixedRows(disk, fileUrl))]
  /\ UNCHANGED <<nextResourceId, approvals, nextApprovalId, calls, roleGiven,
                 statusAsked, disk, nextFileName, deletes, beyondFiles>>

\* deleteResource (the handler) statement by statement.  deletes[c] is the
\* request of client c: the statement it runs next, the id, the file_url it
\* read, whether its DELETE removed the row, whether it unlinked the file and
\* the status it answered.
NoDelete == [pc |-> "idle", id |-> 0, url |-> [bucket |-> "none", name |-> 0],
             rowDeleted |-> FALSE, unlinked |-> FALSE, status |-> 0]

\* Mutation: the file is unlinked right after the row was read.
AfterGetFileFirst == "file"

\* After getResourceById found the row: resourceService.deleteResource.
AfterGet == "row"

\* getResourceById; 404 when there is no row.
deleteResourceGet(c, resourceId) ==
  /\ deletes[c].pc \in {"idle", "done"}
  /\ deletes' = [deletes EXCEPT ![c] =
       IF resourceId \notin DOMAIN resources
       THEN [NoDelete EXCEPT !.pc = "done", !.id = resourceId, !.status = 404]
       ELSE [NoDelete EXCEPT !.pc = AfterGet, !.id = resourceId,
                             !.url = fileUrl[resourceId]]]
  /\ UNCHANGED <<db, calls, roleGiven, statusAsked, disk, fileUrl, nextFileName,
                 reply, beyondFiles>>

\* DELETE FROM resources; 404 when no row was affected.
deleteResourceRow(c) ==
  LET call    == deletes[c]
      deleted == call.id \in DOMAIN resources
  IN  /\ call.pc = "row"
      /\ resources' = DeleteRow(resources, call.id)
      /\ fileUrl' = DeleteRow(fileUrl, call.id)
      /\ roleGiven' = DeleteRow(roleGiven, call.id)
      /\ statusAsked' = DeleteRow(statusAsked, call.id)
      /\ deletes' = [deletes EXCEPT ![c].rowDeleted = deleted,
                                    ![c].pc = IF deleted THEN "file" ELSE "done",
                                    ![c].status = IF deleted THEN 0 ELSE 404]
      /\ UNCHANGED <<nextResourceId, approvals, nextApprovalId, calls, disk,
                     nextFileName, reply, beyondFiles>>

\* deleteFile: unlinks the file if it exists; an error of unlinkSync is caught
\* and logged.  The answer is 200 whatever deleteFile returns.
deleteResourceFile(c, unlinkFails) ==
  LET call == deletes[c]
      done == call.url \in disk /\ ~unlinkFails
  IN  /\ call.pc = "file"
      /\ disk' = IF done THEN disk \ {call.url} ELSE disk
      /\ deletes' = [deletes EXCEPT ![c].unlinked = done,
                                    ![c].pc = "done",
                                    ![c].status = 200]
      /\ UNCHANGED <<db, calls, roleGiven, statusAsked, fileUrl, nextFileName, reply,
                     beyondFiles>>

\* updateResource requests that move a resource to another category.
CategoryUpdates == [category : Categories, approval_status : {Undefined}]

MaxDeleters == 1

Deleters == 1..MaxDeleters

UrlCreateInputs == [category : Categories, uploaded_by : {1}]

UrlInputs == [bucket : Categories \cup {"zip"}, name : FileNames]

NextFiles ==
  \/ \E file \in MimeTypes \cup {Undefined}, categoryFirst \in BOOLEAN,
        data \in UploadInputs :
       postUpload(file, categoryFirst, data)
  \/ \E data \in UrlCreateInputs, url \in UrlInputs : createResourceWithUrl(data, url)
  \/ \E resourceId \in ResourceIdInputs, data \in CategoryUpdates :
       updateResource(resourceId, data)
  \/ fixUrls
  \/ \E c \in Deleters, resourceId \in ResourceIdInputs : deleteResourceGet(c, resourceId)
  \/ \E c \in Deleters : deleteResourceRow(c)
  \/ \E c \in Deleters, unlinkFails \in BOOLEAN : deleteResourceFile(c, unlinkFails)

\* Two rows of the resources table: uploads, creations with a file_url of
\* the client's choice, updates and deletions, for one category and one
\* uploader.
MaxShared == 2

SharedIds == 1..MaxShared

SharedInputs == [category : {"formulas"}, uploaded_by : {1}]

SharedUrls == [bucket : {"formulas"}, name : FileNames]

SharedUpdates == [category : {"formulas", "quotes"}, approval_status : {Undefined}]

NextShared ==
  \/ \E data \in SharedInputs :
       postUploadUpTo(MaxShared, "application/pdf", TRUE, data)
  \/ \E data \in SharedInputs, url \in SharedUrls :
       createResourceWithUrlUpTo(MaxShared, data, url)
  \/ \E resourceId \in SharedIds, data \in SharedUpdates :
       updateResource(resourceId, data)
  \/ \E c \in Deleters, resourceId \in SharedIds : deleteResourceGet(c, resourceId)
  \/ \E c \in Deleters : deleteResourceRow(c)
  \/ \E c \in Deleters, unlinkFails \in BOOLEAN : deleteResourceFile(c, unlinkFails)

----------------------------------------------------------------------------
(* Formulas, their components and the users who created them              *)
(*                                                                         *)
(* FormulaService.createFormula and deleteFormula run on one connection    *)
(* inside a transaction; addFormulaComponent and UserService.deleteUser    *)
(* issue autocommit statements on the pool.  The statements of each call   *)
(* are separate steps, any of which can fail (fails).  The tables hold     *)
(* what the open transactions have written so far for deleteFormula, whose *)
(* call record keeps the rows to put back on rollback; the rows of a       *)
(* createFormula transaction stay in its call record until COMMIT.         *)

MaxFormulas == 2

MaxComponents == 2

MaxAccounts == 1

FormulaIds == 1..MaxFormulas

\* The users table as installed: user_id 1..MaxAccounts, all Active.
Accounts == 1..MaxAccounts

\* The components lists of the createFormula requests; a component without
\* chemical_name makes its INSERT throw.
ComponentLists == {<<>>, <<"water">>, <<"water", Undefined>>}

\* The createFormula requests that pass the handler's validation.
FormulaInputs == [created_by : Accounts \cup {MaxAccounts + 1},
                  components : ComponentLists]

\* formula_components rows of a formula.
ComponentsOf(comps, formulaId) == {c \in comps : c.formula_id = formulaId}

\* The rows of a table whose created_by is the user.
CreatedBy(table, userId) == {k \in DOMAIN table : table[k].created_by = userId}

NoCreate == [pc |-> "idle", data |-> [created_by |-> NULL, components |-> <<>>],
             formulaId |-> 0, rows |-> {}, outcome |-> "none"]

\* A createFormula call that ended; the catch block's ROLLBACK discards the
\* rows of an uncommitted transaction and does nothing after COMMIT.
CreateEnded(call, outcome) == [call EXCEPT !.pc = "done", !.outcome = outcome]

\* beginTransaction and INSERT INTO formulas.  The foreign key on created_by
\* refuses a user that does not exist.
createFormulaInsert(data, fails) ==
  /\ creates.pc \in {"idle", "done"}
  /\ nextFormulaId <= MaxFormulas
  /\ IF fails \/ data.created_by \notin DOMAIN users
     THEN /\ creates' = CreateEnded([NoCreate EXCEPT !.data = data], "error")
          /\ UNCHANGED nextFormulaId
     ELSE /\ creates' = [NoCreate EXCEPT !.pc = "components", !.data = data,
                                         !.formulaId = nextFormulaId]
          /\ nextFormulaId' = nextFormulaId + 1
  /\ UNCHANGED <<users, formulas, components, quotes, nextComponentId, removes,
                 userDeletes, beyondFormulas>>

\* INSERT INTO formula_components for the next component of the request.
createFormulaComponent(fails) ==
  LET done == Cardinality(creates.rows)
      next == creates.data.components[done + 1]
  IN  /\ creates.pc = "components"
      /\ done < Len(creates.data.components)
      /\ nextComponentId <= MaxComponents
      /\ IF fails \/ next = Undefined
         THEN /\ creates' = CreateEnded(creates, "error")
              /\ UNCHANGED nextComponentId
         ELSE /\ creates' = [creates EXCEPT !.rows = @ \cup
                               {[component_id |-> nextComponentId,
                                 formula_id   |-> creates.formulaId]}]
              /\ nextComponentId' = nextComponentId + 1
      /\ UNCHANGED <<users, formulas, components, quotes, nextFormulaId, removes,
                     userDeletes, beyondFormulas>>

\* COMMIT: the rows of the transaction become visible.
createFormulaCommit(fails) ==
  /\ creates.pc = "components"
  /\ Cardinality(creates.rows) = Len(creates.data.components)
  /\ IF fails
     THEN /\ creates' = CreateEnded(creates, "error")
          /\ UNCHANGED <<formulas, components>>
     ELSE /\ creates' = [creates EXCEPT !.pc = "read"]
          /\ formulas' = InsertRow(formulas, creates.formulaId,
                                   [created_by |-> creates.data.created_by])
          /\ components' = components \cup creates.rows
  /\ UNCHANGED <<users, quotes, nextFormulaId, nextComponentId, removes,
                 userDeletes, beyondFormulas>>

\* getFormulaById after COMMIT, still inside the try block: an error of its
\* SELECT is rethrown by the catch block, whose ROLLBACK has nothing to undo.
createFormulaRead(fails) ==
  /\ creates.pc = "read"
  /\ creates' = CreateEnded(creates, IF fails THEN "error" ELSE "created")
  /\ UNCHANGED <<users, formulas, components, quotes, nextFormulaId,
                 nextComponentId, removes, userDeletes, beyondFormulas>>

NoRemove == [pc |-> "idle", id |-> 0, gapLocks |-> FALSE,
             before |-> [formula |-> <<>>, components |-> {}],
             undo |-> [formula |-> <<>>, components |-> {}],
             outcome |-> "none"]

\* The formulas row with the given id, as a table of at most one row.
RowOf(table, id) == [k \in DOMAIN table \cap {id} |-> table[k]]

\* Mutation: the foreign key of formula_components does not cascade.
OnDeleteFormulaNoAction(comps, formulaId) == comps

\* FOREIGN KEY (formula_id) REFERENCES formulas ON DELETE CASCADE: what is
\* left of formula_components when the formulas row is deleted.
OnDeleteFormula(comps, formulaId) == comps \ ComponentsOf(comps, formulaId)

\* ROLLBACK of deleteFormula: the rows the transaction deleted are back.
RolledBack ==
  /\ formulas' = [k \in DOMAIN formulas \cup DOMAIN removes.undo.formula |->
                    IF k \in DOMAIN formulas THEN formulas[k]
                    ELSE removes.undo.formula[k]]
  /\ components' = components \cup removes.undo.components
  /\ removes' = [removes EXCEPT !.pc = "done", !.outcome = "error"]

\* A DELETE waits for the open createFormula transaction that inserted, and
\* has not committed, the rows it is about to delete.
DeleteComponentsWaits(id) ==
  creates.pc = "components" /\ creates.formulaId = id /\ creates.rows # {}

DeleteFormulaWaits(id) ==
  creates.pc = "components" /\ creates.formulaId = id

\* beginTransaction and DELETE FROM formula_components WHERE formula_id = id.
\* gapLocks tells whether the isolation level (REPEATABLE READ) makes the
\* statement lock the index range against inserts.
deleteFormulaComponents(id, gapLocks, fails) ==
  LET started == [NoRemove EXCEPT !.id = id, !.gapLocks = gapLocks,
                    !.before = [formula    |-> RowOf(formulas, id),
                                components |-> ComponentsOf(components, id)]]
  IN  /\ removes.pc \in {"idle", "done"}
      /\ ~DeleteComponentsWaits(id)
      /\ IF fails
         THEN /\ removes' = [started EXCEPT !.pc = "done", !.outcome = "error"]
              /\ UNCHANGED components
         ELSE /\ removes' = [started EXCEPT !.pc = "formula",
                               !.undo.components = ComponentsOf(components, id)]
              /\ components' = components \ ComponentsOf(components, id)
      /\ UNCHANGED <<users, formulas, quotes, nextFormulaId, nextComponentId,
                     creates, userDeletes, beyondFormulas>>

\* DELETE FROM formulas WHERE formula_id = id, with the cascade of its
\* foreign key.
deleteFormulaRow(fails) ==
  /\ removes.pc = "formula"
  /\ ~DeleteFormulaWaits(removes.id)
  /\ IF fails
     THEN RolledBack
     ELSE /\ formulas' = DeleteRow(formulas, removes.id)
          /\ components' = OnDeleteFormula(components, removes.id)
          /\ removes' = [removes EXCEPT
               !.pc = "commit",
               !.undo.formula = RowOf(formulas, removes.id),
               !.undo.components = @ \cup (components \ components')]
  /\ UNCHANGED <<users, quotes, nextFormulaId, nextComponentId, creates,
                 userDeletes, beyondFormulas>>

\* COMMIT; the call returns affectedRows > 0 of the second DELETE.
deleteFormulaCommit(fails) ==
  /\ removes.pc = "commit"
  /\ IF fails
     THEN RolledBack
     ELSE /\ removes' = [removes EXCEPT
               !.pc = "done",
               !.outcome = IF removes.undo.formula = <<>> THEN "notfound"
                           ELSE "deleted"]
          /\ UNCHANGED <<formulas, components>>
  /\ UNCHANGED <<users, quotes, nextFormulaId, nextComponentId, creates,
                 userDeletes, beyondFormulas>>

\* What a consistent read of formulas sees: the committed rows, those an open
\* deleteFormula transaction has deleted included.
CommittedFormulas ==
  IF removes.pc = "commit"
  THEN [k \in DOMAIN formulas \cup DOMAIN removes.undo.formula |->
          IF k \in DOMAIN formulas THEN formulas[k] ELSE removes.undo.formula[k]]
  ELSE formulas

\* The INSERT of addFormulaComponent waits for the locks of an open
\* deleteFormula transaction on the same formula: the lock of the deleted
\* formulas row, and the range lock of the first DELETE if it took one.
InsertWaits(formulaId) ==
  /\ removes.id = formulaId
  /\ \/ removes.pc = "commit" /\ removes.undo.formula # <<>>
     \/ removes.pc = "formula" /\ removes.gapLocks

\* addFormulaComponent: INSERT INTO formula_components, autocommit.  The
\* foreign key refuses a formula_id without a formulas row; the SELECT that
\* follows changes nothing.
addFormulaComponent(formulaId) ==
  /\ ~InsertWaits(formulaId)
  /\ formulaId \in DOMAIN formulas
  /\ nextComponentId <= MaxComponents
  /\ components' = components \cup {[component_id |-> nextComponentId,
                                     formula_id   |-> formulaId]}
  /\ nextComponentId' = nextComponentId + 1
  /\ UNCHANGED <<users, formulas, quotes, nextFormulaId, creates, removes,
                 userDeletes, beyondFormulas>>

NoUserDelete == [pc |-> "idle", id |-> 0, formulaCount |-> 0, quoteCount |-> 0,
                 outcome |-> "none"]

\* deleteUser: SELECT COUNT(*) FROM formulas WHERE created_by = id
deleteUserCountFormulas(id) ==
  /\ userDeletes.pc \in {"idle", "done"}
  /\ userDeletes' = [NoUserDelete EXCEPT
       !.pc = "quotes", !.id = id,
       !.formulaCount = Cardinality(CreatedBy(CommittedFormulas, id))]
  /\ UNCHANGED <<users, formulas, components, quotes, nextFormulaId,
                 nextComponentId, creates, removes, beyondFormulas>>

\* deleteUser: SELECT COUNT(*) FROM quotes WHERE created_by = id
deleteUserCountQuotes ==
  /\ userDeletes.pc = "quotes"
  /\ userDeletes' = [userDeletes EXCEPT
       !.pc = "decide",
       !.quoteCount = Cardinality(CreatedBy(quotes, userDeletes.id))]
  /\ UNCHANGED <<users, formulas, components, quotes, nextFormulaId,
                 nextComponentId, creates, removes, beyondFormulas>>

\* FOREIGN KEY (created_by) REFERENCES users ON DELETE SET NULL
OnDeleteUser(table, userId) ==
  [k \in DOMAIN table |->
     IF table[k].created_by = userId
     THEN [table[k] EXCEPT !.created_by = NULL] ELSE table[k]]

\* The DELETE of deleteUser waits for an open transaction that inserted a
\* formulas row of the user or deleted one.
DeleteUserWaits(userId) ==
  \/ creates.pc = "components" /\ creates.data.created_by = userId
  \/ removes.pc = "commit" /\ CreatedBy(removes.undo.formula, userId) # {}

\* formulaCount[0].count > 0 || quoteCount[0].count > 0
HasDependents(formulaCount, quoteCount) == formulaCount > 0 \/ quoteCount > 0

\* deleteUser, its last statement: UPDATE users SET status = 'Inactive' and
\* true if one of the counts was positive, else DELETE FROM users and
\* affectedRows > 0.
deleteUserFinish ==
  LET id == userDeletes.id
  IN  /\ userDeletes.pc = "decide"
      /\ IF HasDependents(userDeletes.formulaCount, userDeletes.quoteCount)
         THEN /\ users' = [u \in DOMAIN users |->
                             IF u = id THEN "Inactive" ELSE users[u]]
              /\ userDeletes' = [userDeletes EXCEPT !.pc = "done", !.outcome = "true"]
              /\ UNCHANGED <<formulas, quotes>>
         ELSE /\ ~DeleteUserWaits(id)
              /\ users' = DeleteRow(users, id)
              /\ formulas' = OnDeleteUser(formulas, id)
              /\ quotes' = OnDeleteUser(quotes, id)
              /\ userDeletes' = [userDeletes EXCEPT
                   !.pc = "done",
                   !.outcome = IF id \in DOMAIN users THEN "true" ELSE "false"]
      /\ UNCHANGED <<components, nextFormulaId, nextComponentId, creates,
                     removes, beyondFormulas>>

\* A quotes row of the user is inserted.  No service of this repository
\* writes quotes; the table is filled from outside, its foreign key on
\* created_by checked as for formulas.
insertQuote(userId) ==
  /\ quotes = <<>>
  /\ userId \in DOMAIN users
  /\ quotes' = InsertRow(quotes, 1, [created_by |-> userId])
  /\ UNCHANGED <<users, formulas, components, nextFormulaId, nextComponentId,
                 creates, removes, userDeletes, beyondFormulas>>

NextFormulas ==
  \/ \E data \in FormulaInputs, fails \in BOOLEAN : createFormulaInsert(data, fails)
  \/ \E fails \in BOOLEAN : createFormulaComponent(fails)
  \/ \E fails \in BOOLEAN : createFormulaCommit(fails)
  \/ \E fails \in BOOLEAN : createFormulaRead(fails)
  \/ \E id \in FormulaIds, gapLocks \in BOOLEAN, fails \in BOOLEAN :
       deleteFormulaComponents(id, gapLocks, fails)
  \/ \E fails \in BOOLEAN : deleteFormulaRow(fails)
  \/ \E fails \in BOOLEAN : deleteFormulaCommit(fails)
  \/ \E formulaId \in FormulaIds : addFormulaComponent(formulaId)
  \/ \E userId \in Accounts : insertQuote(userId)
  \/ \E id \in Accounts : deleteUserCountFormulas(id)
  \/ deleteUserCountQuotes
  \/ deleteUserFinish

----------------------------------------------------------------------------
(* Resource listings *)

\* The filters of GET /api/resources; a missing (or falsy) filter adds no
\* condition.  The search filter reads file_name and description, which the
\* rows leave out, and can only narrow the result.
ListFilters == [category : Categories \cup {Undefined}, uploaded_by : {NULL} \cup Users]

\* Mutation: the listing has no condition on approval_status.
IsListedAnyStatus(row) == TRUE

\* WHERE r.approval_status = 'Approved'
IsListed(row) == row.approval_status = "Approved"

\* ResourceService.getAllResources: the resource_ids of the rows returned.
getAllResources(res, filters) ==
  {r \in DOMAIN res :
     /\ IsListed(res[r])
     /\ filters.category # Undefined => res[r].category = filters.category
     /\ filters.uploaded_by # NULL => res[r].uploaded_by = filters.uploaded_by}

\* ResourceService.getPendingResources: WHERE r.approval_status = 'Pending'
getPendingResources(res) ==
  {r \in DOMAIN res : res[r].approval_status = "Pending"}


\* ApprovalService.getPendingCount: COUNT(*) FROM approvals WHERE decision =
\* 'Pending'.
getPendingCount(appr) ==
  Cardinality({a \in DOMAIN appr : appr[a].decision = "Pending"})

----------------------------------------------------------------------------
(* Paginated listings: FormulaService.getAllFormulas, UserService.getAllUsers *)
(*                                                                         *)
(* listing.rows are the rows that match the WHERE clause of the listing,   *)
(* numbered 1..N in primary-key order, each with the value it has in a     *)
(* column that is not unique (status); listing.answer is the last answer.  *)

MaxRows == 3

MaxPage == 3

StatusValues == 1..2

\* A query parameter that the request does not carry.
Missing == -1000

\* Math.ceil(total / 0), which JSON writes as null.
NotFinite == -1

ListedTables == UNION {[1..n -> StatusValues] : n \in 0..MaxRows}

Services == {"formulas", "users"}

PageInputs == {Missing} \cup 0..MaxPage

LimitInputs == {Missing, 0, 1, 2, 101}

SortInputs == {Undefined, "formula_id", "status", "name", "status, RAND()"}

ListQueries == [page : PageInputs, limit : LimitInputs, sortBy : SortInputs]

\* The controllers: page ? parseInt(page) : 1, limit ? parseInt(limit) : 10,
\* sortBy || default.
DefaultSort(service) == IF service = "formulas" THEN "created_on" ELSE "username"

ControllerParams(service, query) ==
  [page   |-> IF query.page = Missing THEN 1 ELSE query.page,
   limit  |-> IF query.limit = Missing THEN 10 ELSE query.limit,
   sortBy |-> IF query.sortBy = Undefined THEN DefaultSort(service) ELSE query.sortBy]

\* getAllUsers: const validSortFields = [...]
validSortFields == {"username", "email", "status", "last_login", "created_on"}

\* The sort field that reaches the ORDER BY clause.  getAllUsers maps name
\* to username and replaces a field outside validSortFields by username;
\* getAllFormulas interpolates the field as it comes.
OrderByField(service, sortBy) ==
  IF service = "users"
  THEN LET mapped == IF sortBy = "name" THEN "username" ELSE sortBy
       IN  IF mapped \in validSortFields THEN mapped ELSE "username"
  ELSE sortBy

\* The columns of the two tables (complete_schema.sql).
Columns(service) ==
  IF service = "formulas"
  THEN {"formula_id", "formula_name", "created_by", "density", "total_cost",
        "margin", "container_cost", "status", "created_on", "updated_on"}
  ELSE {"user_id", "supabase_id", "username", "email", "password_hash", "role_id",
        "last_login", "status", "created_on", "updated_on"}

\* Text that is no column name and still makes ORDER BY f.<text> a valid
\* clause of the formulas query.
Expressions(service) == IF service = "formulas" THEN {"status, RAND()"} ELSE {}

UniqueColumns == {"formula_id", "user_id", "username", "email", "supabase_id"}

\* const offset = (page - 1) * limit
Offset(page, limit) == (page - 1) * limit

\* Math.ceil(total / limit)
TotalPages(total, limit) ==
  IF limit = 0 THEN NotFinite
  ELSE IF limit > 0 THEN (total + limit - 1) \div limit
  ELSE -((total) \div (-limit))

RowOrders(n) ==
  {f \in [1..n -> 1..n] : \A i, j \in 1..n : i # j => f[i] # f[j]}

\* The orders in which ORDER BY field [ASC|DESC] can return the rows: the
\* order of the values, rows with equal values in any order (no statement
\* adds a tie-breaker).  A unique column leaves one order.
Orders(rows, field, descending) ==
  LET n == Len(rows)
      key(i) == IF field \in UniqueColumns THEN i
                ELSE rows[i]
  IN  {f \in RowOrders(n) :
         \A i, j \in 1..n :
           i < j => IF descending THEN key(f[i]) >= key(f[j])
                                  ELSE key(f[i]) <= key(f[j])}

\* LIMIT limit OFFSET offset of an ordered result.
Slice(order, limit, offset) ==
  LET n     == Len(order)
      first == offset + 1
      last  == IF offset + limit < n THEN offset + limit ELSE n
  IN  [k \in 1..(IF last >= first THEN last - first + 1 ELSE 0) |-> order[first + k - 1]]

NoAnswer == [service |-> "none", asked |-> Undefined, page |-> 0, limit |-> 0,
             offset |-> 0, orderBy |-> "none", status |-> 0, total |-> 0,
             totalPages |-> 0, data |-> <<>>]

\* The listing as executed: COUNT(*), then the page.  MySQL refuses a
\* negative LIMIT or OFFSET and an ORDER BY f.field whose first word is no
\* column of the table; the handler answers 500.
Listed(service, query, order) ==
  LET params  == ControllerParams(service, query)
      orderBy == OrderByField(service, params.sortBy)
      offset  == Offset(params.page, params.limit)
      total   == Len(listing.rows)
      sent    == [NoAnswer EXCEPT !.service = service, !.asked = query.sortBy,
                                  !.page = params.page, !.limit = params.limit,
                                  !.offset = offset, !.orderBy = orderBy]
  IN  IF \/ params.limit < 0 \/ offset < 0
         \/ orderBy \notin Columns(service) \cup Expressions(service)
      THEN [sent EXCEPT !.status = 500]
      ELSE [sent EXCEPT !.status = 200, !.total = total,
                        !.totalPages = TotalPages(total, params.limit),
                        !.data = Slice(order, params.limit, offset)]

\* GET /api/formulas (ORDER BY ... DESC by default)
getAllFormulas(query, order) ==
  /\ order \in Orders(listing.rows,
                      OrderByField("formulas", ControllerParams("formulas", query).sortBy),
                      TRUE)
  /\ listing' = [listing EXCEPT !.answer = Listed("formulas", query, order)]
  /\ UNCHANGED <<db, calls, roleGiven, statusAsked, fileVars, formulaVars, request, chatVars>>

\* GET /api/users (ORDER BY ... ASC by default)
getAllUsers(query, order) ==
  /\ order \in Orders(listing.rows,
                      OrderByField("users", ControllerParams("users", query).sortBy),
                      FALSE)
  /\ listing' = [listing EXCEPT !.answer = Listed("users", query, order)]
  /\ UNCHANGED <<db, calls, roleGiven, statusAsked, fileVars, formulaVars, request, chatVars>>

NextList ==
  \/ \E query \in ListQueries, order \in RowOrders(Len(listing.rows)) :
       getAllFormulas(query, order)
  \/ \E query \in ListQueries, order \in RowOrders(Len(listing.rows)) :
       getAllUsers(query, order)

----------------------------------------------------------------------------
(* The resource router and the authentication middleware                   *)

\* A role name as text: its words in lower case, whether it is written with
\* capitals, and what separates the words.
RoleText(words, capitals, sep) == [words |-> words, capitals |-> capitals, sep |-> sep]

\* No role name (undefined, null or the empty string: all falsy).
NoRole == RoleText(<<>>, FALSE, "")

\* capacity_admin, Capacity Admin, nsight  admin, user
RoleTexts ==
  {RoleText(<<"capacity", "admin">>, FALSE, "_"),
   RoleText(<<"capacity", "admin">>, TRUE, " "),
   RoleText(<<"nsight", "admin">>, FALSE, "  "),
   RoleText(<<"user">>, FALSE, "")}

\* role.toLowerCase().replace(/\s+/g, '_')
NormalizeRole(role) ==
  RoleText(role.words, FALSE, IF role.sep \in {" ", "  "} THEN "_" ELSE role.sep)

\* requireAdmin = authorizeRole(['capacity_admin', 'nsight_admin',
\*                               'capacity admin', 'nsight admin'])
requireAdminRoles ==
  {RoleText(<<"capacity", "admin">>, FALSE, "_"),
   RoleText(<<"nsight", "admin">>, FALSE, "_"),
   RoleText(<<"capacity", "admin">>, FALSE, " "),
   RoleText(<<"nsight", "admin">>, FALSE, " ")}

\* Who sends a request: the state of the bearer token, the role_name of the
\* MySQL row and the role of the Supabase metadata.
Actors ==
  [token : {"none", "invalid"}, role_name : {NoRole}, role : {NoRole}]
    \cup [token : {"valid"}, role_name : RoleTexts \cup {NoRole},
          role : {NoRole, RoleText(<<"capacity", "admin">>, FALSE, "_")}]

\* MOCK_USER: no role_name, role MOCK_USER_ROLE || 'capacity'
MOCK_USER == [token |-> "none", role_name |-> NoRole,
              role |-> RoleText(<<"capacity">>, FALSE, "")]

\* req.user.role_name || req.user.role || 'user'
UserRole(user) ==
  IF user.role_name # NoRole THEN user.role_name
  ELSE IF user.role # NoRole THEN user.role
  ELSE RoleText(<<"user">>, FALSE, "")

\* authenticateToken: the status it answers, 0 when it calls next().
authenticateToken(authDisabled, actor) ==
  IF authDisabled THEN 0
  ELSE IF actor.token # "valid" THEN 401
  ELSE 0

\* authorizeRole(allowedRoles) after authenticateToken has set req.user.
authorizeRole(allowedRoles, authDisabled, user) ==
  IF authDisabled THEN 0
  ELSE IF NormalizeRole(UserRole(user)) \notin {NormalizeRole(r) : r \in allowedRoles}
       THEN 403
  ELSE 0

\* The two routers of the repository for /api/resources: the one of
\* routes/resourceRoutes.ts mounts the handlers alone, the other puts
\* authenticateToken and requireAdmin before them.
Routers == {"resourceRoutes.ts", "part_000"}

AdminRoutes == {"approve", "reject", "pending"}

\* The answer of the middleware of a route, 0 when the handler is called.
Middleware(router, authDisabled, actor) ==
  IF router = "resourceRoutes.ts" THEN 0
  ELSE IF authenticateToken(authDisabled, actor) # 0
       THEN authenticateToken(authDisabled, actor)
  ELSE authorizeRole(requireAdminRoles, authDisabled,
                     IF authDisabled THEN MOCK_USER ELSE actor)

NoRequest == [router |-> "none", authDisabled |-> FALSE, route |-> "none",
              actor |-> [token |-> "none", role_name |-> NoRole, role |-> NoRole],
              status |-> 0, handled |-> FALSE]

\* A request arrives at one of the three routes: the middleware answers it
\* or hands it to the handler.
routeRequest(router, authDisabled, route, actor) ==
  /\ request' = [router |-> router, authDisabled |-> authDisabled, route |-> route,
                 actor |-> actor,
                 status |-> Middleware(router, authDisabled, actor),
                 handled |-> Middleware(router, authDisabled, actor) = 0]
  /\ UNCHANGED <<db, calls, roleGiven, statusAsked, fileVars, formulaVars, listing, chatVars>>

\* POST /api/resources/:id/approve once the middleware has called next()
routedApprove(resourceId, approverId) ==
  /\ request.handled /\ request.route = "approve"
  /\ approveResource(resourceId, approverId)

\* POST /api/resources/:id/reject once the middleware has called next()
routedReject(resourceId, approverId) ==
  /\ request.handled /\ request.route = "reject"
  /\ rejectResource(resourceId, approverId)

NextRoutes ==
  \/ \E data \in HandlerCreateInputs : createResourceHandler(data)
  \/ \E router \in Routers, authDisabled \in BOOLEAN, route \in AdminRoutes,
        actor \in Actors :
       routeRequest(router, authDisabled, route, actor)
  \/ \E resourceId \in ResourceIdInputs, approverId \in ApproverInputs :
       routedApprove(resourceId, approverId)
  \/ \E resourceId \in ResourceIdInputs, approverId \in ApproverInputs :
       routedReject(resourceId, approverId)

----------------------------------------------------------------------------
(* streamChatMessage                                                       *)
(*                                                                         *)
(* chat is the request in progress: where it stands, the HTTP status of    *)
(* its answer (0 while no header has gone out), the SSE events written,    *)
(* how many times the response has been ended (res.end, or res.json which  *)
(* ends it), the interaction row it created and the chunks received.       *)
(* interactions[i] is the response column of chat_interactions row i.      *)

MaxInteractions == 2

MaxChunks == 3

\* The response column: NULL, or the text made of so many chunks.
NullResponse == [null |-> TRUE, chunks |-> 0]

TextResponse(chunks) == [null |-> FALSE, chunks |-> chunks]

NoChat == [pc |-> "idle", status |-> 0, headersSent |-> FALSE, events |-> <<>>,
           ended |-> 0, id |-> 0, chunks |-> 0]

\* res.status(status).json(body)
Json(call, status) ==
  [call EXCEPT !.pc = "done", !.status = status, !.headersSent = TRUE,
               !.ended = @ + 1]

\* res.write(`data: ...`): the first write sends the headers, status 200.
Write(call, event) ==
  [call EXCEPT !.events = Append(@, event), !.headersSent = TRUE,
               !.status = IF call.headersSent THEN @ ELSE 200]

\* res.end()
End(call) == [call EXCEPT !.pc = "done", !.ended = @ + 1]

\* Mutation: the inner catch writes the error event and leaves the
\* response open.
StreamErrorStaysOpen(call) == [Write(call, "error") EXCEPT !.pc = "done"]

\* catch (streamError): the error event, then res.end().
StreamError(call) == End(Write(call, "error"))

\* The outer catch: a JSON 500 while no header has gone out, the error event
\* and res.end() otherwise.
OuterError(call) ==
  IF ~call.headersSent THEN Json(call, 500) ELSE End(Write(call, "error"))

\* The request enters the handler: 401 without a user, 400 without
\* session_id or message, else the SSE headers are set.
streamChatMessage(hasUser, hasBody) ==
  /\ chat.pc \in {"idle", "done"}
  /\ Len(interactions) < MaxInteractions
  /\ chat' = IF ~hasUser THEN Json(NoChat, 401)
             ELSE IF ~hasBody THEN Json(NoChat, 400)
             ELSE [NoChat EXCEPT !.pc = "create"]
  /\ UNCHANGED <<interactions, db, calls, roleGiven, statusAsked, fileVars,
                 formulaVars, listing, request>>

\* chatService.createInteraction: the INSERT with response NULL, then the
\* attachments and the read-back; it fails before the INSERT, after it, or
\* not at all.
createInteraction(fails) ==
  /\ chat.pc = "create"
  /\ interactions' = IF fails = "insert" THEN interactions
                     ELSE Append(interactions, NullResponse)
  /\ chat' = IF fails = "no"
             THEN [chat EXCEPT !.pc = "stream", !.id = Len(interactions) + 1]
             ELSE OuterError(chat)
  /\ UNCHANGED <<db, calls, roleGiven, statusAsked, fileVars, formulaVars,
                 listing, request>>

\* for await (const chunk of stream): one chunk is written.
streamChunk ==
  /\ chat.pc = "stream"
  /\ chat.chunks < MaxChunks
  /\ chat' = [Write(chat, "chunk") EXCEPT !.chunks = @ + 1]
  /\ UNCHANGED <<interactions, db, calls, roleGiven, statusAsked, fileVars,
                 formulaVars, listing, request>>

\* The generator throws: Failed to get AI response.
streamFails ==
  /\ chat.pc = "stream"
  /\ chat' = StreamError(chat)
  /\ UNCHANGED <<interactions, db, calls, roleGiven, statusAsked, fileVars,
                 formulaVars, listing, request>>

\* The generator returns.
streamReturns ==
  /\ chat.pc = "stream"
  /\ chat' = [chat EXCEPT !.pc = "session"]
  /\ UNCHANGED <<interactions, db, calls, roleGiven, statusAsked, fileVars,
                 formulaVars, listing, request>>

\* chatService.getSessionById, then the completion event.
getSessionById(fails) ==
  /\ chat.pc = "session"
  /\ chat' = IF fails THEN StreamError(chat)
             ELSE [Write(chat, "done") EXCEPT !.pc = "update"]
  /\ UNCHANGED <<interactions, db, calls, roleGiven, statusAsked, fileVars,
                 formulaVars, listing, request>>

\* chatService.updateInteractionResponse, then res.end().
updateInteractionResponse(fails) ==
  /\ chat.pc = "update"
  /\ interactions' = IF fails THEN interactions
                     ELSE [interactions EXCEPT ![chat.id] = TextResponse(chat.chunks)]
  /\ chat' = IF fails THEN StreamError(chat) ELSE End(chat)
  /\ UNCHANGED <<db, calls, roleGiven, statusAsked, fileVars, formulaVars,
                 listing, request>>

NextChat ==
  \/ \E hasUser \in BOOLEAN, hasBody \in BOOLEAN : streamChatMessage(hasUser, hasBody)
  \/ \E fails \in {"no", "insert", "after"} : createInteraction(fails)
  \/ streamChunk
  \/ streamFails
  \/ streamReturns
  \/ \E fails \in BOOLEAN : getSessionById(fails)
  \/ \E fails \in BOOLEAN : updateInteractionResponse(fails)

----------------------------------------------------------------------------

\* Every table empty but the accounts, no call in progress.
InitTables ==
  /\ resources = <<>>
  /\ nextResourceId = 1
  /\ approvals = <<>>
  /\ nextApprovalId = 1
  /\ calls = [c \in Clients |-> Idle]
  /\ roleGiven = <<>>
  /\ statusAsked = <<>>
  /\ disk = {}
  /\ fileUrl = <<>>
  /\ nextFileName = 1
  /\ deletes = [c \in Deleters |-> NoDelete]
  /\ reply = NoReply
  /\ users = [u \in Accounts |-> "Active"]
  /\ formulas = <<>>
  /\ components = {}
  /\ quotes = <<>>
  /\ nextFormulaId = 1
  /\ nextComponentId = 1
  /\ creates = NoCreate
  /\ removes = NoRemove
  /\ userDeletes = NoUserDelete
  /\ request = NoRequest
  /\ chat = NoChat
  /\ interactions = <<>>

Init ==
  /\ InitTables
  /\ listing = [rows |-> <<>>, answer |-> NoAnswer]

\* The HTTP handlers.
Next ==
  \/ \E data \in HandlerCreateInputs : createResourceHandler(data)
  \/ \E actorRole \in RoleNames \cup {Undefined}, hasFile \in BOOLEAN,
        data \in HandlerCreateInputs :
       uploadResource(actorRole, hasFile, data)
  \/ \E resourceId \in ResourceIdInputs, data \in UpdateInputs :
       updateResource(resourceId, data)
  \/ \E resourceId \in ResourceIdInputs : deleteResource(resourceId)
  \/ \E resourceId \in ResourceIdInputs, approverId \in ApproverInputs :
       approveResource(resourceId, approverId)
  \/ \E resourceId \in ResourceIdInputs, approverId \in ApproverInputs :
       rejectResource(resourceId, approverId)
  \/ \E resourceId \in ResourceIdInputs, value \in NonNumericApprovers :
       approveResourceNonNumeric(resourceId, value)
  \/ \E resourceId \in ResourceIdInputs, value \in NonNumericApprovers :
       rejectResourceNonNumeric(resourceId, value)
  \/ \E data \in ApprovalCreateInputs : createApproval(data)
  \/ \E approvalId \in ApprovalIdInputs, decision \in Decisions \cup {Undefined} :
       updateApproval(approvalId, decision)
  \/ \E approvalId \in ApprovalIdInputs : deleteApproval(approvalId)

Spec == Init /\ [][Next]_vars

\* The handlers, and ResourceService.createResource called with an actor role
\* (no handler passes one).
NextService ==
  \/ Next
  \/ \E data \in CreateInputs, userRole \in RoleNames \cup {Undefined} :
       createResource(data, userRole)

SpecService == Init /\ [][NextService]_vars

NextRace ==
  \/ \E data \in HandlerCreateInputs : createResourceHandler(data)
  \/ \E c \in Clients, resourceId \in ResourceIdInputs, approverId \in ApproverInputs :
       approveResourceBegin(c, resourceId, approverId)
  \/ \E c \in Clients, resourceId \in ResourceIdInputs, approverId \in ApproverInputs :
       rejectResourceBegin(c, resourceId, approverId)
  \/ \E c \in Clients : DecisionUpdateResource(c)
  \/ \E c \in Clients : DecisionUpdateApprovals(c)

SpecRace == Init /\ [][NextRace]_vars

\* The concurrent requests, any of which can fail between its two statements.
NextCrash ==
  \/ NextRace
  \/ \E c \in Clients : DecisionUpdateApprovalsFails(c)

SpecCrash == Init /\ [][NextCrash]_vars

\* The listings over every table of at most MaxRows matching rows.
InitList ==
  /\ InitTables
  /\ \E rows \in ListedTables : listing = [rows |-> rows, answer |-> NoAnswer]

SpecList == InitList /\ [][NextList]_vars

SpecRoutes == Init /\ [][NextRoutes]_vars

SpecChat == Init /\ [][NextChat]_vars

SpecShared == Init /\ [][NextShared]_vars

SpecFiles == Init /\ [][NextFiles]_vars

SpecFormulas == Init /\ [][NextFormulas]_vars

----------------------------------------------------------------------------
(* Claims *)

\* The roles createResource can be given that are not admin roles, the absent
\* role included.
NonAdminRoles == (RoleNames \cup {Undefined}) \ AdminRoles

ResourceApprovals(appr, resourceId) == ApprovalsOf(appr, "Resource", resourceId)

\* C1: a resource created by createResource with a category other than
\* knowledge and a role outside the admin set is Pending when the call
\* completes, and exactly one Pending approvals row of that resource exists,
\* with the uploader as approver_id.
C1_NonAdminUploadHasOnePendingApproval ==
  [][\A data \in CreateInputs, userRole \in NonAdminRoles :
       (data.category # "knowledge" /\ createResource(data, userRole)) =>
         LET pending == PendingApprovalsOf(approvals', "Resource", nextResourceId)
         IN  /\ resources'[nextResourceId].approval_status = "Pending"
             /\ Cardinality(pending) = 1
             /\ \A a \in pending : approvals'[a].approver_id = data.uploaded_by]_vars

\* C2: a resource created with category knowledge is Approved with
\* approved_by = the uploader, for every role, and the call inserts no
\* approvals row.
C2_KnowledgeAutoApproved ==
  [][\A data \in CreateInputs, userRole \in RoleNames \cup {Undefined} :
       (data.category = "knowledge" /\ createResource(data, userRole)) =>
         /\ resources'[nextResourceId].approval_status = "Approved"
         /\ resources'[nextResourceId].approved_by = data.uploaded_by
         /\ approvals' = approvals
         /\ nextApprovalId' = nextApprovalId]_vars

\* A knowledge resource created for a plain user stands Approved by its
\* uploader and the approvals table never received a row.
C2_Witness ==
  \E r \in DOMAIN resources :
    /\ roleGiven[r] = "user"
    /\ resources[r].category = "knowledge"
    /\ resources[r].approval_status = "Approved"
    /\ resources[r].approved_by = resources[r].uploaded_by
    /\ nextApprovalId = 1

\* C3: approveResource on a Pending resource sets approval_status = Approved
\* and approved_by = approverId and turns every Pending approvals row of the
\* resource into decision = Approved with approver_id = approverId;
\* rejectResource does the same with Rejected.
DecisionApplied(status, resourceId, approverId) ==
  /\ resources'[resourceId].approval_status = status
  /\ resources'[resourceId].approved_by = approverId
  /\ \A a \in PendingApprovalsOf(approvals, "Resource", resourceId) :
       /\ approvals'[a].decision = status
       /\ approvals'[a].approver_id = approverId

C3_DecisionOnPendingResource ==
  [][\A resourceId \in ResourceIdInputs, approverId \in ApproverInputs :
       /\ (/\ resourceId \in DOMAIN resources
           /\ resources[resourceId].approval_status = "Pending"
           /\ approveResource(resourceId, approverId))
          => DecisionApplied("Approved", resourceId, approverId)
       /\ (/\ resourceId \in DOMAIN resources
           /\ resources[resourceId].approval_status = "Pending"
           /\ rejectResource(resourceId, approverId))
          => DecisionApplied("Rejected", resourceId, approverId)]_vars

\* A resource decided by somebody other than its uploader, with its approvals
\* row carrying the same decision and the same approver.
C3_Witness ==
  \E r \in DOMAIN resources, a \in DOMAIN approvals :
    /\ resources[r].approval_status \in {"Approved", "Rejected"}
    /\ resources[r].approved_by # resources[r].uploaded_by
    /\ approvals[a].entity_type = "Resource" /\ approvals[a].entity_id = r
    /\ approvals[a].decision = resources[r].approval_status
    /\ approvals[a].approver_id = resources[r].approved_by

\* C4: once a resource is Approved or Rejected, no step changes its
\* approval_status.
C4_DecidedIsTerminal ==
  [][\A r \in DOMAIN resources \cap DOMAIN resources' :
       resources[r].approval_status \in {"Approved", "Rejected"} =>
         resources'[r].approval_status = resources[r].approval_status]_vars

\* C5: every (entity_type, entity_id) has at most one Pending approvals row.
C5_AtMostOnePendingPerEntity ==
  \A t \in EntityTypes, e \in 1..MaxResources :
    Cardinality(PendingApprovalsOf(approvals, t, e)) <= 1

C8_AdminUploadAutoApproved ==
  [][\A actorRole \in AdminRoles, data \in CreateInputs :
       (data.category # "knowledge" /\ uploadResource(actorRole, TRUE, data)) =>
         /\ resources'[nextResourceId].approval_status = "Approved"
         /\ resources'[nextResourceId].approved_by = data.uploaded_by
         /\ approvals' = approvals]_vars

\* C9: createResource given an admin role creates the resource Approved with
\* approved_by = the uploader and approved_on set, and inserts no approvals
\* row, whatever the category.
C9_AdminRoleAutoApproved ==
  [][\A data \in CreateInputs, userRole \in {"capacity_admin", "nsight_admin"} :
       createResource(data, userRole) =>
         /\ resources'[nextResourceId].approval_status = "Approved"
         /\ resources'[nextResourceId].approved_by = data.uploaded_by
         /\ resources'[nextResourceId].approved_on = "NOW"
         /\ approvals' = approvals
         /\ nextApprovalId' = nextApprovalId]_vars

\* A resource created with the second admin role in another category than
\* knowledge stands Approved by its uploader and no approvals row was inserted.
C9_Witness ==
  \E r \in DOMAIN resources :
    /\ roleGiven[r] = "nsight_admin"
    /\ nextApprovalId = 1
    /\ resources[r].category # "knowledge"
    /\ resources[r].approval_status = "Approved"
    /\ resources[r].approved_by = resources[r].uploaded_by
    /\ resources[r].approved_on = "NOW"
    /\ ResourceApprovals(approvals, r) = {}

\* C10 as claimed: no approvals row has decision Returned.
C10_NoReturnedRow ==
  \A a \in DOMAIN approvals : approvals[a].decision # "Returned"

\* C10 amended: a row's decision becomes Returned only in a createApproval or
\* updateApproval request that carries decision = Returned; no resource
\* operation produces it, and a createApproval request without a decision
\* stores Pending.
C10_ReturnedOnlyOnRequest ==
  [][/\ \A a \in DOMAIN approvals' :
          (/\ approvals'[a].decision = "Returned"
           /\ ~(a \in DOMAIN approvals /\ approvals[a].decision = "Returned"))
          => \/ \E data \in ApprovalCreateInputs :
                  data.decision = "Returned" /\ createApproval(data)
             \/ updateApproval(a, "Returned")
     /\ \A data \in ApprovalCreateInputs :
          (data.decision = Undefined /\ createApproval(data))
          => approvals'[nextApprovalId].decision = "Pending"]_vars

\* A row that was Returned on request sits next to a decided resource.
C10_Witness ==
  /\ \E a \in DOMAIN approvals : approvals[a].decision = "Returned"
  /\ \E r \in DOMAIN resources : resources[r].approval_status # "Pending"

\* Two approveResource requests of different clients, both arrived while the
\* resource and its approvals row were Pending, both with an existing user as
\* approver, both answered.  A client has one request in flight, so from the
\* later arrival on no other request runs.
RacedApprovals(c1, c2) ==
  /\ c1 # c2
  /\ calls[c1].pc = "done" /\ calls[c2].pc = "done"
  /\ calls[c1].decision = "Approved" /\ calls[c2].decision = "Approved"
  /\ calls[c1].id = calls[c2].id
  /\ calls[c1].before = "Pending" /\ calls[c2].before = "Pending"
  /\ calls[c1].pendingBefore > 0 /\ calls[c2].pendingBefore > 0
  /\ calls[c1].approver \in Users /\ calls[c2].approver \in Users

\* What every interleaving of two raced approvals ends in: both answered 200,
\* the resource Approved, its approvals rows Approved, one of the two
\* approvals updates having matched no row.
RaceEndsApproved(c1, c2) ==
  LET r == calls[c1].id
  IN  /\ calls[c1].status = 200 /\ calls[c2].status = 200
      /\ resources[r].approval_status = "Approved"
      /\ ResourceApprovals(approvals, r) # {}
      /\ \A a \in ResourceApprovals(approvals, r) : approvals[a].decision = "Approved"
      /\ \/ calls[c1].affected = 0 /\ calls[c2].affected > 0
         \/ calls[c2].affected = 0 /\ calls[c1].affected > 0

C11_NeverBackToPending ==
  [][\A r \in DOMAIN resources \cap DOMAIN resources' :
       resources[r].approval_status \in {"Approved", "Rejected"} =>
         resources'[r].approval_status # "Pending"]_vars

\* A Rejected resource that an updateResource request asked to set back to
\* Pending.
C11_Witness ==
  \E r \in DOMAIN resources :
    /\ statusAsked[r]
    /\ resources[r].approval_status = "Rejected"

\* C12: approve or reject with an approver_id that is not numeric is answered
\* 400 and changes no resources row and no approvals row.
C12_NonNumericApproverRefused ==
  [][\A resourceId \in ResourceIdInputs, value \in NonNumericApprovers :
       (\/ approveResourceNonNumeric(resourceId, value)
        \/ rejectResourceNonNumeric(resourceId, value))
       => /\ AnswersBadRequest(value)
          /\ UNCHANGED <<resources, approvals>>]_vars

\* An upload step that carried a file part of the given MIME type.
UploadStepOf(file) ==
  /\ reply'.op = "upload" /\ reply'.mime = file
  /\ reply' # reply \/ nextFileName' # nextFileName

\* C13: an upload whose MIME type is outside the allow-list is refused by the
\* file filter: the handler does not run, no file is stored, no resources row
\* and no approvals row is created.
C13_FilteredUploadCreatesNothing ==
  [][UploadStepOf("application/zip") =>
       /\ reply'.outcome = "filtered"
       /\ UNCHANGED <<resources, approvals, fileUrl, disk>>]_vars

\* An upload was refused by the filter and the tables and the disk are empty.
C13_Witness ==
  /\ reply.op = "upload" /\ reply.outcome = "filtered"
  /\ resources = <<>> /\ approvals = <<>> /\ disk = {}

\* C17: deleteResource has unlinked the file only when the row is gone, and a
\* request whose DELETE removed the row is answered 200 whether or not the
\* file could be unlinked.
C17_RowDeletedBeforeFile ==
  \A c \in Deleters :
    /\ deletes[c].unlinked => deletes[c].id \notin DOMAIN resources
    /\ (deletes[c].pc = "done" /\ deletes[c].rowDeleted) => deletes[c].status = 200

\* A delete removed the row, failed to unlink the file, which is still on the
\* disk, and answered 200.
C17_Witness ==
  \E c \in Deleters :
    /\ deletes[c].pc = "done" /\ deletes[c].rowDeleted
    /\ ~deletes[c].unlinked /\ deletes[c].url \in disk
    /\ deletes[c].status = 200

\* C18: a download by id whose file is not at the recorded path is served
\* from the first bucket of the search order that holds the file, and is
\* answered 404 only when no bucket holds it.
C18_DownloadSearchesBuckets ==
  \A r \in DOMAIN resources \cap DOMAIN fileUrl :
    fileUrl[r] \notin disk =>
      LET found == FirstBucket(disk, fileUrl[r].name)
      IN  IF found # "none"
          THEN /\ downloadResource(r).status = 200
               /\ downloadResource(r).bucket = found
          ELSE downloadResource(r).status = 404

\* The rows whose file sits in one of the buckets.
HasFile(files, urls, r) == FirstBucket(files, urls[r].name) # "none"

\* A second fix-urls run right after a first one rewrites nothing.
SecondRunChangesNothing ==
  /\ FixedRows(disk', fileUrl') = {}
  /\ FixedUrls(disk', fileUrl') = fileUrl'
  /\ FixedCategories(disk', fileUrl', resources') = resources'

\* C19 as claimed: fix-urls is idempotent, and after a run every resource
\* whose file is in some bucket has a file_url category segment and a
\* category column naming a bucket that holds the file.
C19_FixUrlsReconcilesUrlAndCategory ==
  [][fixUrls =>
       /\ SecondRunChangesNothing
       /\ \A r \in DOMAIN fileUrl' :
            HasFile(disk', fileUrl', r) =>
              /\ fileUrl'[r] \in disk'
              /\ [bucket |-> resources'[r].category, name |-> fileUrl'[r].name]
                   \in disk']_vars

\* C19 amended: fix-urls is idempotent, and after a run every resource whose
\* file is in some bucket has a file_url category segment naming a bucket
\* that holds the file; the category column is set to that bucket for the
\* rows the run rewrote and is left as it was for every other row.
C19_FixUrlsReconcilesUrl ==
  [][fixUrls =>
       /\ SecondRunChangesNothing
       /\ \A r \in DOMAIN fileUrl' :
            /\ HasFile(disk', fileUrl', r) => fileUrl'[r] \in disk'
            /\ resources'[r].category =
                 IF r \in FixedRows(disk, fileUrl)
                 THEN fileUrl'[r].bucket ELSE resources[r].category]_vars

\* A run rewrote a row, whose file_url now names the bucket that holds the
\* file.
C19_Witness ==
  /\ reply.op = "fix-urls" /\ reply.fixed > 0
  /\ \E r \in DOMAIN fileUrl :
       fileUrl[r] \in disk /\ resources[r].category = fileUrl[r].bucket

\* C20: an upload by an existing user whose category is missing or outside
\* the list stores the file under uploads/other and persists a resources row
\* with category other and a file_url in the other bucket.
C20_UnknownCategoryBecomesOther ==
  [][\A categoryFirst \in BOOLEAN, data \in UploadInputs :
       (/\ data.category \notin Categories
        /\ data.uploaded_by \in Users
        /\ postUpload("application/pdf", categoryFirst, data))
       => /\ [bucket |-> "other", name |-> nextFileName] \in disk'
          /\ nextResourceId \in DOMAIN resources'
          /\ resources'[nextResourceId].category = "other"
          /\ fileUrl'[nextResourceId].bucket = "other"]_vars

\* C14: once a deleteFormula call has deleted its formula, no
\* formula_components row with its formula_id exists, whatever
\* addFormulaComponent calls ran beside it or run after it; when the call ends
\* in an error, the formula row and the component rows it found are still
\* there.
C14_DeleteFormulaLeavesNoComponents ==
  [][/\ (removes'.pc = "done" /\ removes'.outcome = "deleted")
          => ComponentsOf(components', removes'.id) = {}
     /\ (removes.pc # "done" /\ removes'.pc = "done" /\ removes'.outcome = "error")
          => /\ removes'.before.components \subseteq components'
             /\ DOMAIN removes'.before.formula \subseteq DOMAIN formulas']_vars

\* A deleteFormula call deleted a formula and, by the cascade, a component
\* that was added after its first DELETE.
C14_Witness ==
  /\ removes.pc = "done" /\ removes.outcome = "deleted"
  /\ removes.undo.components # removes.before.components
  /\ ComponentsOf(components, removes.id) = {}

\* C15: createFormula is all-or-nothing: when the call ends in an error,
\* neither its formula row nor any of its component rows is in the tables;
\* when it succeeds, the formula row and every supplied component row are.
C15_CreateFormulaAllOrNothing ==
  [][(creates.pc # "done" /\ creates'.pc = "done") =>
       IF creates'.outcome = "error"
       THEN /\ creates'.formulaId \notin DOMAIN formulas'
            /\ creates'.rows \cap components' = {}
       ELSE /\ creates'.formulaId \in DOMAIN formulas'
            /\ creates'.rows \subseteq components'
            /\ Cardinality(creates'.rows) = Len(creates'.data.components)]_vars

\* C16: deleteUser removes no users row whose user has a formula or a quote
\* at that moment: such a user is kept, Inactive, and the call returns true.
C16_NoHardDeleteWithDependents ==
  [][(userDeletes.pc = "decide" /\ userDeletes'.pc = "done"
        /\ userDeletes.id \in DOMAIN users
        /\ \/ CreatedBy(CommittedFormulas, userDeletes.id) # {}
           \/ CreatedBy(quotes, userDeletes.id) # {})
       => /\ userDeletes.id \in DOMAIN users'
          /\ users'[userDeletes.id] = "Inactive"
          /\ userDeletes'.outcome = "true"]_vars

\* C26: getAllResources returns only Approved resources: for every filter
\* combination a Pending or Rejected resource is absent from its result, and
\* a Pending resource is in the result of getPendingResources.
C26_OnlyApprovedListed ==
  \A r \in DOMAIN resources :
    /\ \A filters \in ListFilters :
         r \in getAllResources(resources, filters)
           => resources[r].approval_status = "Approved"
    /\ resources[r].approval_status = "Pending"
         => r \in getPendingResources(resources)

\* A Pending resource is in the pending list and in no listing, although
\* the filters of one listing match its category and its uploader.
C26_Witness ==
  \E r \in DOMAIN resources :
    /\ resources[r].approval_status = "Pending"
    /\ r \in getPendingResources(resources)
    /\ \A filters \in ListFilters : r \notin getAllResources(resources, filters)
    /\ \E filters \in ListFilters :
         /\ filters.category = resources[r].category
         /\ filters.uploaded_by = resources[r].uploaded_by

\* C29: whenever no approve or reject call is in progress, an approvals row
\* of a resource and the resource agree: a row with decision Approved
\* (Rejected) belongs to an Approved (Rejected) resource whose approved_by is
\* the row's approver_id.
C29_ApprovalsAgreeWithResource ==
  (\A c \in Clients : calls[c].pc \in {"idle", "done"}) =>
    \A a \in DOMAIN approvals :
      (/\ approvals[a].entity_type = "Resource"
       /\ approvals[a].entity_id \in DOMAIN resources
       /\ approvals[a].decision \in {"Approved", "Rejected"})
      => /\ resources[approvals[a].entity_id].approval_status = approvals[a].decision
         /\ resources[approvals[a].entity_id].approved_by = approvals[a].approver_id

\* C30: every approvals row with entity_type Resource refers to an existing
\* resources row, so the pending count covers no deleted resource.
C30_NoApprovalOfMissingResource ==
  /\ \A a \in DOMAIN approvals :
       approvals[a].entity_type = "Resource"
         => approvals[a].entity_id \in DOMAIN resources
  /\ getPendingCount(approvals) =
       Cardinality({a \in DOMAIN approvals :
                      /\ approvals[a].decision = "Pending"
                      /\ approvals[a].entity_type = "Resource"
                           => approvals[a].entity_id \in DOMAIN resources})

\* C27: approveResource and rejectResource are not atomic: a call that fails
\* after its resources UPDATE and before its approvals UPDATE is answered
\* 500 and nothing is rolled back, the resources row keeps what the first
\* statement wrote and the approvals rows stay as they were.
C27_FailureBetweenStatementsKeepsFirst ==
  [][\A c \in Clients :
       (/\ calls[c].pc = "approvals" /\ calls'[c].pc = "done"
        /\ calls'[c].status = 500)
       => /\ resources' = resources
          /\ approvals' = approvals]_vars

\* A call failed between its statements: it was answered 500, the resource
\* it found Pending carries its decision and its approver, and the
\* approvals row of the resource is still Pending.
C27_Witness ==
  \E c \in Clients :
    /\ calls[c].pc = "done" /\ calls[c].status = 500 /\ calls[c].before = "Pending"
    /\ calls[c].id \in DOMAIN resources
    /\ resources[calls[c].id].approval_status = calls[c].decision
    /\ resources[calls[c].id].approved_by = calls[c].approver
    /\ PendingApprovalsOf(approvals, "Resource", calls[c].id) # {}

----------------------------------------------------------------------------
(* Pagination                                                              *)

\* The answer of a listing whose statements went to the database.
Executed(answer) == answer.service # "none"

\* C24: every paginated listing query is executed with page >= 1 and
\* 1 <= limit <= 100; a request with page < 1, limit < 1 or limit > 100
\* never reaches the database with those values.
C24_ListingWithinBounds ==
  Executed(listing.answer) =>
    /\ listing.answer.page >= 1
    /\ listing.answer.limit >= 1
    /\ listing.answer.limit <= 100

\* The sort fields a listing may take from the request: the list of
\* getAllUsers with the name it maps, and any column of the formulas table.
SortAllowList(service) ==
  IF service = "users" THEN validSortFields \cup {"name"} ELSE Columns("formulas")

\* C23: in the listings of formulas and of users a sortBy value outside the
\* allow-list never reaches the ORDER BY clause; the query is executed with
\* the default sort field.
C23_SortByOutsideAllowListFallsBack ==
  (/\ Executed(listing.answer)
   /\ listing.answer.asked \notin SortAllowList(listing.answer.service))
    => listing.answer.orderBy = DefaultSort(listing.answer.service)

\* The rows of a page.
RowsOf(answer) == {answer.data[k] : k \in 1..Len(answer.data)}

\* The number of rows between offsets (p - 1) * L and min(p * L, N).
PageLength(p, L, N) ==
  LET last == IF p * L < N THEN p * L ELSE N
  IN  IF last > (p - 1) * L THEN last - (p - 1) * L ELSE 0

\* C22: a listing over N rows with page p and limit L reports totalPages =
\* ceil(N / L), page p holds the rows at offsets (p - 1) * L up to
\* min(p * L, N), and the rows of two different pages of the same listing
\* are disjoint.
C22_PagesPartitionTheListing ==
  [][LET a == listing.answer
         b == listing'.answer
     IN  (/\ a.status = 200 /\ b.status = 200
          /\ a.service = b.service /\ a.asked = b.asked
          /\ a.limit = b.limit /\ b.limit >= 1
          /\ a.page >= 1 /\ b.page >= 1 /\ a.page # b.page)
           => /\ b.totalPages * b.limit >= b.total
              /\ (b.totalPages - 1) * b.limit < b.total
              /\ Len(b.data) = PageLength(b.page, b.limit, b.total)
              /\ RowsOf(a) \cap RowsOf(b) = {}]_vars

----------------------------------------------------------------------------
(* Authorization of the approval routes                                    *)

\* An authenticated actor whose role normalizes to capacity_admin or
\* nsight_admin.
IsAdminActor(actor) ==
  /\ actor.token = "valid"
  /\ NormalizeRole(UserRole(actor)) \in
       {RoleText(<<"capacity", "admin">>, FALSE, "_"),
        RoleText(<<"nsight", "admin">>, FALSE, "_")}

\* C25: the approve, reject and pending-list routes act only for an
\* authenticated actor whose role normalizes to capacity_admin or
\* nsight_admin; any other request is answered 401 or 403 and changes no
\* resources row and no approvals row.
C25_OnlyAdminsDecide ==
  [][/\ (request' # request /\ ~IsAdminActor(request'.actor))
          => /\ request'.status \in {401, 403}
             /\ ~request'.handled
     /\ (request' = request /\ nextResourceId' = nextResourceId
         /\ <<resources, approvals>>' # <<resources, approvals>>)
          => IsAdminActor(request.actor)]_vars

----------------------------------------------------------------------------
(* The chat stream                                                         *)

\* C28: once the interaction row exists, a failure of the AI stream is
\* reported as the SSE event {error: true, message} followed by the end of
\* the response; the response is ended exactly once on every path; the
\* interaction row is not rolled back and keeps its NULL response.
C28_StreamFailureEndsOnceKeepsRow ==
  [][/\ (chat.pc = "stream" /\ chat'.pc = "done")
          => /\ chat'.events = Append(chat.events, "error")
             /\ chat'.ended = 1
             /\ interactions' = interactions
             /\ chat.id \in DOMAIN interactions'
             /\ interactions'[chat.id] = NullResponse
     /\ chat'.ended <= 1
     /\ (chat'.pc = "done" => chat'.ended = 1)]_vars

\* The stream failed after a chunk had been written; the row is still there.
C28_Witness ==
  /\ chat.pc = "done"
  /\ chat.events = <<"chunk", "error">>
  /\ chat.ended = 1
  /\ chat.status = 200
  /\ interactions[chat.id] = NullResponse

----------------------------------------------------------------------------
(* One resource row per stored file                                        *)

\* C21: no two rows of resources have the same file_url, so each stored
\* file is referenced by at most one row, whatever uploads, metadata-only
\* creations, updates and deletions have run; two uploads make two files and
\* two rows.
C21_OneRowPerFile ==
  \A r, q \in DOMAIN resources \cap DOMAIN fileUrl :
    r # q => fileUrl[r] # fileUrl[q]

====
